---- MODULE Spec2Model ----
(***************************************************************************)
(* Model of jetton_sender.py: main() resolves the jetton and the source    *)
(* wallet through tenacity-wrapped gateway calls, checks the wallet state, *)
(* then sends the jetton to every destination wallet in list order.        *)
(* One step of the model is one gateway round trip (one attempt of a       *)
(* retry-wrapped coroutine) together with everything main() does until the *)
(* next round trip.                                                        *)
(***************************************************************************)
EXTENDS Integers, Sequences, FiniteSets, TLC

VARIABLES pc, dests, retrieveAttempts, sendAttempts, attempt, idx,
          outcomes, walletState, trace, seen, seenAt, error, exitCode

vars == <<pc, dests, retrieveAttempts, sendAttempts, attempt, idx,
          outcomes, walletState, trace, seen, seenAt, error, exitCode>>

\* ---------------------------------------------------------------- bounds
MaxDest == 3
MaxAttempts == 2
\* the longest destination list of a run examined for termination
MaxDestLive == 2
\* the longest destination list of a run with the default retry settings
MaxDestDefault == 1

\* int(os.getenv("RETRIEVE_RETRY_ATTEMPTS", 5)), int(os.getenv("SEND_RETRY_ATTEMPTS", 5))
DefaultRetrieveRetryAttempts == 5
DefaultSendRetryAttempts == 5

\* The destination lists of the model, for every length up to MaxDest: the
\* list that alternates two addresses (a repeat from the third position on)
\* and the list that repeats one address.  send_jetton passes the address to
\* the gateway and never looks at it.
Alternating(n) == [i \in 1..n |-> IF i % 2 = 1 THEN "A" ELSE "B"]
Repeated(n) == [i \in 1..n |-> "A"]

DestinationLists == {Alternating(n) : n \in 0..MaxDest} \cup {Repeated(n) : n \in 0..MaxDest}

\* ------------------------------------------------------- gateway outcomes
\* What a gateway call does: "ok" it returns, "transient" it raises
\* TonCenterClientError, "rejected" it raises GetMethodError, "other" it
\* raises any other exception.
ResolveOutcomes == {"ok", "transient", "other"}
SendOutcomes == {"ok", "transient", "rejected", "other"}
WalletStates == {"active", "inactive", "notinit"}

\* WalletState enum; only "active" passes the check of main().
WalletStateActive == "active"

\* ------------------------------------------------------------ tenacity
\* A retry predicate that accepts every exception.
RetryIfAnyException(out) == out # "returned"

\* retry=retry_if_exception_type(TonCenterClientError)
RetryIfExceptionType(out) == out = "transient"

\* A stop condition that is one attempt late.
StopAfterAttemptLate(attemptNumber, n) == attemptNumber > n

\* A decorator without a stop condition.
StopNever(attemptNumber, n) == FALSE

\* stop=stop_after_attempt(n): true once the attempt number reaches n
StopAfterAttempt(attemptNumber, n) == attemptNumber >= n

\* What the retry wrapper does after attempt number attemptNumber ended
\* with what the wrapped coroutine did ("returned" or the exception kind).
\*   "return"      the wrapper returns the coroutine's result
\*   "raise"       the wrapper raises the coroutine's exception unchanged
\*   "retry"       after_log, wait, another attempt
\*   "retry_error" after_log, the wrapper raises tenacity.RetryError
RetryDecision(result, attemptNumber, n, reraise) ==
    IF result = "returned" THEN "return"
    ELSE IF ~RetryIfExceptionType(result) THEN "raise"
    ELSE IF StopAfterAttempt(attemptNumber, n)
         THEN (IF reraise THEN "raise" ELSE "retry_error")
         ELSE "retry"

\* An after callback that runs after every attempt.
AfterLoggedEveryAttempt(result) == TRUE

\* after=after_log(...): called after each attempt the retry predicate accepts
AfterLogged(result) == result # "returned" /\ RetryIfExceptionType(result)

\* The exception that leaves the retry wrapper: the coroutine's own, or
\* tenacity.RetryError when the attempts are used up without reraise.
Raised(result, decision) == IF decision = "retry_error" THEN "RetryError" ELSE result

\* main() with except BaseException around the resolvers.
MainCatchesAll(exc) == TRUE

\* main(): except TonCenterClientError -> exit(3)
MainCatches(exc) == exc = "transient"

\* The resolvers' decorators with reraise left out.
RetrieveNoReraise == FALSE

\* reraise=True on get_jetton and get_wallet, absent on send_jetton
RetrieveReraise == TRUE
SendReraise == FALSE

\* ------------------------------------------------------------ the trace
\* An event of the run: its kind k and the list position p it belongs to
\* (0 for the resolvers); a transfer event also carries the address sent to.
Ev(k, p) == [k |-> k, p |-> p]
TransferEv(p, a) == [k |-> "transfer", p |-> p, a |-> a]
\* the record after_log writes: it names the attempt that has just ended
LogEv(k, p, n) == [k |-> k, p |-> p, n |-> n]

\* The kinds of event a send_jetton call for one destination produces ...
SendKinds == {"invoke_send", "transfer", "ok", "transient", "rejected", "other",
              "Sent", "SkippedError", "sleep", "retry_log_send", "Aborted"}

\* ... and all kinds of event of a run.
Kinds == SendKinds \cup
         {"invoke_get_jetton", "fetch_token", "token_ok", "token_transient",
          "token_other", "retry_log_jetton", "return_get_jetton",
          "invoke_get_wallet", "fetch_state", "state_ok", "state_transient",
          "state_other", "retry_log_wallet", "return_get_wallet", "check"}

\* The occurrences of one kind of event in the trace: how many, and the
\* places of the first and of the last one.  seen[k] are those of kind k,
\* seenAt[p][k] those of kind k that belong to list position p.
NoOcc == [n |-> 0, first |-> 0, last |-> 0]

MaxOf(S) == CHOOSE x \in S : \A y \in S : y <= x
MinOf(S) == CHOOSE x \in S : \A y \in S : x <= y

\* occ extended by the events of evs at the places is, appended after base
Extend(occ, is, base) ==
    IF is = {} THEN occ
    ELSE [n |-> occ.n + Cardinality(is),
          first |-> IF occ.n = 0 THEN base + MinOf(is) ELSE occ.first,
          last |-> base + MaxOf(is)]

\* Append the events evs to the trace.
Observe(evs) ==
    /\ trace' = trace \o evs
    /\ seen' = [k \in Kinds |->
                  Extend(seen[k], {i \in 1..Len(evs) : evs[i].k = k}, Len(trace))]
    /\ seenAt' = [p \in DOMAIN seenAt |-> [k \in SendKinds |->
                  Extend(seenAt[p][k], {i \in 1..Len(evs) : evs[i].k = k /\ evs[i].p = p},
                         Len(trace))]]

Occ(k) == seen[k]
OccAt(k, p) == seenAt[p][k]
Count(k) == seen[k].n
CountAt(k, p) == seenAt[p][k].n

Init ==
    /\ pc = "get_jetton"
    /\ \/ /\ dests \in DestinationLists
          /\ retrieveAttempts \in 1..MaxAttempts
          /\ sendAttempts \in 1..MaxAttempts
       \/ /\ dests \in {d \in DestinationLists : Len(d) <= MaxDestDefault}
          /\ retrieveAttempts = DefaultRetrieveRetryAttempts
          /\ sendAttempts = DefaultSendRetryAttempts
    /\ attempt = 0
    /\ idx = 1
    /\ outcomes = [i \in 1..Len(dests) |-> "Pending"]
    /\ walletState = "unknown"
    /\ trace = <<>>
    /\ seen = [k \in Kinds |-> NoOcc]
    /\ seenAt = [p \in 1..Len(dests) |-> [k \in SendKinds |-> NoOcc]]
    /\ error = "none"
    /\ exitCode = -1

\* One attempt of get_jetton (jetton.update() is the gateway call).
GetJetton(out) ==
    /\ pc = "get_jetton"
    /\ LET n == attempt + 1
           result == IF out = "ok" THEN "returned" ELSE out
           decision == RetryDecision(result, n, retrieveAttempts, RetrieveReraise)
           evs == (IF attempt = 0 THEN <<Ev("invoke_get_jetton", 0)>> ELSE <<>>)
                  \o <<Ev("fetch_token", 0), Ev("token_" \o out, 0)>>
                  \o (IF AfterLogged(result) THEN <<LogEv("retry_log_jetton", 0, n)>> ELSE <<>>)
                  \o (IF decision = "return" THEN <<Ev("return_get_jetton", 0)>> ELSE <<>>)
       IN  /\ Observe(evs)
           /\ CASE decision = "return" ->
                     /\ pc' = "get_wallet" /\ attempt' = 0
                     /\ UNCHANGED <<error, exitCode>>
                [] decision = "retry" ->
                     /\ pc' = pc /\ attempt' = n
                     /\ UNCHANGED <<error, exitCode>>
                [] OTHER ->
                     /\ attempt' = 0
                     /\ error' = Raised(result, decision)
                     /\ IF MainCatches(Raised(result, decision))
                        THEN pc' = "exit" /\ exitCode' = 3
                        ELSE pc' = "raised" /\ exitCode' = 1
    /\ UNCHANGED <<dests, retrieveAttempts, sendAttempts, idx, outcomes, walletState>>

\* One attempt of get_wallet (wallet.get_state() is the gateway call).
GetWallet(out, state) ==
    /\ pc = "get_wallet"
    /\ LET n == attempt + 1
           result == IF out = "ok" THEN "returned" ELSE out
           decision == RetryDecision(result, n, retrieveAttempts, RetrieveReraise)
           evs == (IF attempt = 0 THEN <<Ev("invoke_get_wallet", 0)>> ELSE <<>>)
                  \o <<Ev("fetch_state", 0), Ev("state_" \o out, 0)>>
                  \o (IF AfterLogged(result) THEN <<LogEv("retry_log_wallet", 0, n)>> ELSE <<>>)
                  \o (IF decision = "return" THEN <<Ev("return_get_wallet", 0)>> ELSE <<>>)
       IN  /\ Observe(evs)
           /\ CASE decision = "return" ->
                     /\ pc' = "check" /\ attempt' = 0
                     /\ walletState' = state
                     /\ UNCHANGED <<error, exitCode>>
                [] decision = "retry" ->
                     /\ pc' = pc /\ attempt' = n
                     /\ UNCHANGED <<error, exitCode, walletState>>
                [] OTHER ->
                     /\ attempt' = 0
                     /\ error' = Raised(result, decision)
                     /\ IF MainCatches(Raised(result, decision))
                        THEN pc' = "exit" /\ exitCode' = 3
                        ELSE pc' = "raised" /\ exitCode' = 1
                     /\ UNCHANGED walletState
    /\ UNCHANGED <<dests, retrieveAttempts, sendAttempts, idx, outcomes>>

\* A check that lets a not-initialized wallet through.
StateIsActiveOrNotinit(state) == state # "inactive"

\* if source_wallet_state != WalletState.active: exit(4)
StateIsActive(state) == state = WalletStateActive

CheckState ==
    /\ pc = "check"
    /\ Observe(<<Ev("check", 0)>>)
    /\ IF StateIsActive(walletState)
       THEN /\ pc' = "loop"
            /\ UNCHANGED <<error, exitCode>>
       ELSE /\ pc' = "exit"
            /\ exitCode' = 4
            /\ UNCHANGED error
    /\ UNCHANGED <<dests, retrieveAttempts, sendAttempts, attempt, idx, outcomes, walletState>>

\* send_jetton without its except GetMethodError clause.
SendResultNoRejectionClause(out) == IF out = "ok" THEN "returned" ELSE out

\* The body of send_jetton for one gateway outcome: what the coroutine
\* does ("returned" or the exception kind it raises) ...
SendResult(out) ==
    IF out = "ok" THEN "returned"
    ELSE IF out = "rejected" THEN "returned"
    ELSE out

\* The sleep moved out of the try body, so that it also follows a rejection.
SendSleepsAfterRejection(out) == out \in {"ok", "rejected"}

\* A sleep that is left out after the last destination of the list.
SendSleepsExceptLast(out) == out = "ok" /\ idx < Len(dests)

\* The sleep in a finally clause: it follows every attempt.
SendSleepsAlways(out) == TRUE

\* ... and whether it sleeps sleep_seconds before returning.
SendSleeps(out) == out = "ok"

\* A loop over the distinct addresses only: the next position whose address
\* has not been met before.
NextDistinctDestination(i) ==
    LET fresh == {j \in (i + 1)..Len(dests) : \A q \in 1..(j - 1) : dests[q] # dests[j]}
    IN  IF fresh = {} THEN Len(dests) + 1
        ELSE CHOOSE j \in fresh : \A j2 \in fresh : j <= j2

\* A loop that steps over every second destination.
NextDestinationSkipsOne(i) == i + 2

\* A loop that never leaves its destination.
StayOnDestination(i) == i

\* for destination_wallet in destination_wallets: the position after i
NextDestination(i) == i + 1

\* A main() that resolves the jetton and the wallet again for every
\* destination.
AfterSendResolvesAgain == "get_jetton"

\* where main() continues once send_jetton has returned: the for loop
AfterSendReturns == "loop"

\* One attempt of send_jetton for the destination at position idx.
SendJetton(out) ==
    /\ pc = "loop"
    /\ idx <= Len(dests)
    /\ LET n == attempt + 1
           result == SendResult(out)
           decision == RetryDecision(result, n, sendAttempts, SendReraise)
           status == CASE decision = "return" /\ out = "ok" -> "Sent"
                       [] decision = "return" /\ out # "ok" -> "SkippedError"
                       [] decision = "retry" -> "Sending"
                       [] OTHER -> "Aborted"
           evs == (IF attempt = 0 THEN <<Ev("invoke_send", idx)>> ELSE <<>>)
                  \o <<TransferEv(idx, dests[idx]), Ev(out, idx)>>
                  \o (IF status \in {"Sent", "SkippedError"} THEN <<Ev(status, idx)>> ELSE <<>>)
                  \o (IF SendSleeps(out) THEN <<Ev("sleep", idx)>> ELSE <<>>)
                  \o (IF AfterLogged(result) THEN <<LogEv("retry_log_send", idx, n)>> ELSE <<>>)
                  \o (IF status = "Aborted" THEN <<Ev("Aborted", idx)>> ELSE <<>>)
       IN  /\ Observe(evs)
           /\ outcomes' = [outcomes EXCEPT ![idx] = status]
           /\ CASE decision = "return" ->
                     /\ idx' = NextDestination(idx) /\ attempt' = 0
                     /\ pc' = AfterSendReturns
                     /\ UNCHANGED <<error, exitCode>>
                [] decision = "retry" ->
                     /\ idx' = idx /\ attempt' = n /\ pc' = pc
                     /\ UNCHANGED <<error, exitCode>>
                [] OTHER ->
                     /\ idx' = idx /\ attempt' = 0 /\ pc' = "raised"
                     /\ error' = Raised(result, decision)
                     /\ exitCode' = 1
    /\ UNCHANGED <<dests, retrieveAttempts, sendAttempts, walletState>>

\* The for loop is exhausted, main() returns.
MainReturn ==
    /\ pc = "loop"
    /\ idx > Len(dests)
    /\ pc' = "done"
    /\ exitCode' = 0
    /\ UNCHANGED <<dests, retrieveAttempts, sendAttempts, attempt, idx, outcomes,
                   walletState, trace, seen, seenAt, error>>

Next ==
    \/ \E out \in ResolveOutcomes : GetJetton(out)
    \/ \E out \in ResolveOutcomes, state \in WalletStates : GetWallet(out, state)
    \/ CheckState
    \/ \E out \in SendOutcomes : SendJetton(out)
    \/ MainReturn

Spec == Init /\ [][Next]_vars

\* ------------------------------------------------------------ vocabulary
Positions == 1..Len(dests)
Settled == {"Sent", "SkippedError"}
SettledCount == Cardinality({p \in Positions : outcomes[p] \in Settled})
Terminated == pc \in {"done", "exit", "raised"}
\* the run got past the wallet-state check into the for loop
ReachedLoop == pc \in {"loop", "done"} \/ Count("invoke_send") > 0

\* the occurrences of a and of b together
Both(a, b) ==
    IF a.n = 0 THEN b
    ELSE IF b.n = 0 THEN a
    ELSE [n |-> a.n + b.n,
          first |-> IF a.first < b.first THEN a.first ELSE b.first,
          last |-> IF a.last > b.last THEN a.last ELSE b.last]

\* every occurrence of a lies before every occurrence of b
IsBefore(a, b) == a.n = 0 \/ b.n = 0 \/ a.last < b.first

\* the place in the trace where position p became Sent or SkippedError
TransitionAt(p) == Both(OccAt("Sent", p), OccAt("SkippedError", p))

\* the sleeps after every occurrence of a and before every occurrence of b
SleepsBetween(a, b) ==
    LET lo == IF a.n = 0 THEN 0 ELSE a.last
        hi == IF b.n = 0 THEN Len(trace) + 1 ELSE b.first
    IN  {i \in (lo + 1)..(hi - 1) : trace[i].k = "sleep"}

\* the last transfer call for position p
LastTransferAt(p) ==
    [n |-> 1, first |-> OccAt("transfer", p).last, last |-> OccAt("transfer", p).last]

\* ------------------------------------------------------------------- C1
\* C1: when get_wallet returned a state other than active, transfer_jetton
\* is never called and the run ends with exit code 4; the state check is
\* made at most once, after both resolvers returned and before any send.
C1_NotActiveNoTransferExit4 ==
    /\ walletState \in {"inactive", "notinit"} =>
          /\ Count("transfer") = 0 /\ Count("invoke_send") = 0
          /\ pc \in {"check", "exit"}
          /\ pc = "exit" => exitCode = 4 /\ Count("check") = 1
    /\ Count("check") <= 1
    /\ IsBefore(Both(Occ("return_get_jetton"), Occ("return_get_wallet")), Occ("check"))
    /\ IsBefore(Occ("check"), Occ("transfer"))
    /\ Count("transfer") > 0 => Count("check") = 1

C1_Witness ==
    /\ pc = "exit" /\ exitCode = 4 /\ walletState = "inactive"
    /\ Len(dests) = MaxDest /\ Count("check") = 1

\* ------------------------------------------------------------------- C2
\* C2: a run that reached the loop and ended without any unclassified send
\* error (transient errors that use up the send attempts included) has all
\* n destinations Sent or SkippedError; once an unclassified send error
\* occurred fewer than n are, and every later destination is Pending.
C2_AllSettledUnlessUnclassified ==
    /\ (pc \in {"done", "raised"} /\ ReachedLoop /\ Count("other") = 0)
          => SettledCount = Len(dests)
    /\ Count("other") > 0 =>
          /\ SettledCount < Len(dests)
          /\ \A q \in Positions : q > idx => outcomes[q] = "Pending"

\* ------------------------------------------------------------------- C3
\* C3: a destination whose transfer failed with the transient error on every
\* configured attempt is SkippedError, no error left send_jetton, and the
\* loop goes on (or the run is done with exit code 0).
C3_ExhaustionRecovered ==
    \A p \in Positions :
       CountAt("transient", p) >= sendAttempts =>
          /\ outcomes[p] = "SkippedError"
          /\ error = "none"
          /\ pc \in {"loop", "done"}
          /\ pc = "done" => exitCode = 0

\* ------------------------------------------------------------------- C4
\* C4: a destination whose transfer raised GetMethodError is SkippedError
\* after that single rejection, with no later transfer call for it, no error
\* propagated for it and the loop advanced past it; a finished run exits 0.
\* For three destinations with only the second rejected there are three
\* transfer calls and the outcomes are Sent, SkippedError, Sent.
C4_RejectionSkipped ==
    /\ \A p \in Positions :
          CountAt("rejected", p) > 0 =>
             /\ CountAt("rejected", p) = 1
             /\ outcomes[p] = "SkippedError"
             /\ IsBefore(OccAt("transfer", p), OccAt("rejected", p))
             /\ CountAt("sleep", p) = 0
             /\ idx > p
             /\ CountAt("Aborted", p) = 0
             /\ pc = "done" => exitCode = 0
             /\ (pc = "done" /\ p < Len(dests)) => CountAt("transfer", p + 1) > 0
    /\ ( /\ pc = "done" /\ Len(dests) = 3
         /\ Count("rejected") = 1 /\ CountAt("rejected", 2) = 1
         /\ Count("transient") = 0 )
          => /\ Count("transfer") = 3
             /\ outcomes = <<"Sent", "SkippedError", "Sent">>
             /\ exitCode = 0

C4_Witness ==
    /\ pc = "done" /\ exitCode = 0
    /\ outcomes = <<"Sent", "SkippedError", "Sent">>
    /\ CountAt("rejected", 2) = 1
    /\ Count("transfer") = 3

\* ------------------------------------------------------------------- C5
\* C5: a transfer that raised an exception that is neither
\* TonCenterClientError nor GetMethodError is the last transfer call of the
\* run: its destination is Aborted, the exception left main (exit status 1),
\* and every later destination is Pending with no transfer call.
C5_UnclassifiedAborts ==
    \A p \in Positions :
       CountAt("other", p) > 0 =>
          /\ CountAt("other", p) = 1
          /\ outcomes[p] = "Aborted"
          /\ pc = "raised" /\ error = "other" /\ exitCode = 1
          /\ IsBefore(Occ("transfer"), OccAt("other", p))
          /\ \A q \in Positions : q > p =>
                outcomes[q] = "Pending" /\ CountAt("transfer", q) = 0

C5_Witness ==
    /\ outcomes = <<"Sent", "Aborted", "Pending">>
    /\ CountAt("other", 2) = 1
    /\ pc = "raised"

\* ------------------------------------------------------------------- C6
\* C6: when the jetton fetch, or the wallet-state fetch, failed with the
\* transient error on every configured attempt the run exits with code 3
\* without any transfer call; when it was the jetton fetch, get_wallet is
\* never invoked.
C6_ResolutionExhaustedExit3 ==
    /\ Count("token_transient") >= retrieveAttempts =>
          /\ pc = "exit" /\ exitCode = 3
          /\ Count("fetch_token") = retrieveAttempts
          /\ Count("invoke_get_wallet") = 0 /\ Count("fetch_state") = 0
          /\ Count("invoke_send") = 0 /\ Count("transfer") = 0
    /\ Count("state_transient") >= retrieveAttempts =>
          /\ pc = "exit" /\ exitCode = 3
          /\ Count("fetch_state") = retrieveAttempts
          /\ Count("invoke_send") = 0 /\ Count("transfer") = 0

C6_Witness ==
    /\ retrieveAttempts = MaxAttempts
    /\ Count("token_transient") = MaxAttempts
    /\ pc = "exit" /\ exitCode = 3
    /\ Len(dests) = MaxDest

\* ------------------------------------------------------------------- C7
\* C7: in a run that reached the loop get_jetton and get_wallet were each
\* invoked exactly once, get_jetton returning before get_wallet is invoked
\* and get_wallet returning before the first send; no gateway fetch of
\* either resolver happens after the first send started.
C7_ResolversOnceBeforeSends ==
    ReachedLoop =>
       /\ Count("invoke_get_jetton") = 1 /\ Count("return_get_jetton") = 1
       /\ Count("invoke_get_wallet") = 1 /\ Count("return_get_wallet") = 1
       /\ IsBefore(Occ("invoke_get_jetton"), Occ("return_get_jetton"))
       /\ IsBefore(Occ("return_get_jetton"), Occ("invoke_get_wallet"))
       /\ IsBefore(Occ("invoke_get_wallet"), Occ("return_get_wallet"))
       /\ IsBefore(Occ("return_get_wallet"), Both(Occ("invoke_send"), Occ("transfer")))
       /\ IsBefore(Both(Occ("fetch_token"), Occ("fetch_state")),
                   Both(Occ("invoke_send"), Occ("transfer")))

C7_Witness ==
    /\ pc = "done" /\ Len(dests) = MaxDest
    /\ Count("transfer") > MaxDest
    /\ Count("fetch_token") = 1 + Count("retry_log_jetton")
    /\ Count("retry_log_jetton") > 0

C9_DelayBetweenAllTransitions ==
    /\ \A p \in Positions :
          (p < Len(dests) /\ outcomes[p] \in Settled /\ outcomes[p + 1] \in Settled)
             => SleepsBetween(TransitionAt(p), TransitionAt(p + 1)) # {}
    /\ \A p \in Positions :
          outcomes[p] = "Aborted" =>
             /\ CountAt("transfer", p) > 0
             /\ SleepsBetween(LastTransferAt(p), OccAt("Aborted", p)) = {}

\* C9 amended: between two consecutive transitions into Sent or SkippedError
\* exactly one sleep lies when the earlier one is into Sent, and it precedes
\* the later destination's first transfer call; none lies after a transition
\* into SkippedError; none lies between a failing transfer call and Aborted.
C9_DelayAfterSentOnly ==
    /\ \A p \in Positions :
          (p < Len(dests) /\ outcomes[p] \in Settled /\ outcomes[p + 1] \in Settled)
             => LET sleeps == SleepsBetween(TransitionAt(p), TransitionAt(p + 1))
                IN  /\ Cardinality(sleeps) = (IF outcomes[p] = "Sent" THEN 1 ELSE 0)
                    /\ \A i \in sleeps : i < OccAt("transfer", p + 1).first
    /\ \A p \in Positions :
          /\ outcomes[p] = "Sent" =>
                /\ CountAt("sleep", p) = 1
                /\ IsBefore(TransitionAt(p), OccAt("sleep", p))
          /\ outcomes[p] # "Sent" => CountAt("sleep", p) = 0
    /\ Count("sleep") = Cardinality({p \in Positions : CountAt("sleep", p) > 0})
    /\ \A p \in Positions :
          outcomes[p] = "Aborted" =>
             /\ CountAt("transfer", p) > 0
             /\ SleepsBetween(LastTransferAt(p), OccAt("Aborted", p)) = {}

C9_Witness ==
    /\ Len(dests) = 3
    /\ outcomes = <<"Sent", "SkippedError", "Sent">>
    /\ Count("sleep") = 2
    /\ pc = "done"

\* ------------------------------------------------------------------ C10
\* C10: transfer calls follow the list order: a position gets its first
\* transfer call only after the position before it became Sent or
\* SkippedError, every position before the current one has been processed
\* and every position after it is Pending, at most one position is Sending,
\* and every processed position had its own send to its own address, also
\* when the address occurs at another position.
C10_ListOrderOneAtATime ==
    /\ \A p \in Positions :
          (p > 1 /\ CountAt("transfer", p) > 0) =>
             /\ outcomes[p - 1] \in Settled
             /\ TransitionAt(p - 1).n = 1
             /\ IsBefore(TransitionAt(p - 1), OccAt("transfer", p))
             /\ IsBefore(OccAt("transfer", p - 1), OccAt("transfer", p))
    /\ \A p \in Positions :
          /\ p < idx => outcomes[p] \in Settled
          /\ p > idx => outcomes[p] = "Pending" /\ CountAt("transfer", p) = 0
    /\ Cardinality({p \in Positions : outcomes[p] = "Sending"}) <= 1
    /\ \A p \in Positions :
          outcomes[p] # "Pending" =>
             /\ CountAt("invoke_send", p) = 1
             /\ CountAt("transfer", p) > 0
    /\ \A i \in 1..Len(trace) :
          trace[i].k = "transfer" => trace[i].a = dests[trace[i].p]
    /\ pc = "done" => \A p \in Positions : outcomes[p] \in Settled

C10_Witness ==
    /\ pc = "done"
    /\ Len(dests) = 3 /\ dests[1] = dests[3] /\ dests[1] # dests[2]
    /\ outcomes = <<"Sent", "Sent", "Sent">>
    /\ CountAt("transfer", 1) > 1 /\ CountAt("transfer", 3) = 1

\* ------------------------------------------------------------------ C11
\* every transfer call of the finished run succeeded at its first attempt
AllSentFirstTry ==
    /\ pc = "done"
    /\ Count("transient") = 0 /\ Count("rejected") = 0 /\ Count("other") = 0

\* C11 as stated: a finished run over n >= 1 destinations whose sends all
\* succeeded at the first attempt made n transfer calls, has n outcomes
\* Sent, exit code 0, and slept n-1 inter-send delays.
C11_OneDelayFewerThanSends ==
    (AllSentFirstTry /\ Len(dests) >= 1) =>
       /\ Count("transfer") = Len(dests)
       /\ \A p \in Positions : outcomes[p] = "Sent"
       /\ exitCode = 0
       /\ Count("sleep") = Len(dests) - 1

\* C11 amended: such a run made n transfer calls, has n outcomes Sent, exit
\* code 0, and slept n delays, one after every send, the last one included.
C11_OneDelayPerSend ==
    AllSentFirstTry =>
       /\ Count("transfer") = Len(dests)
       /\ \A p \in Positions : outcomes[p] = "Sent" /\ CountAt("transfer", p) = 1
       /\ exitCode = 0
       /\ Count("sleep") = Len(dests)
       /\ \A p \in Positions :
             /\ CountAt("sleep", p) = 1
             /\ IsBefore(OccAt("Sent", p), OccAt("sleep", p))
             /\ p < Len(dests) => IsBefore(OccAt("sleep", p), OccAt("transfer", p + 1))

C11_Witness ==
    /\ AllSentFirstTry
    /\ Len(dests) = 3
    /\ Count("transfer") = 3 /\ Count("sleep") = 3
    /\ outcomes = <<"Sent", "Sent", "Sent">>

\* ------------------------------------------------------------------ C12
\* C12: main returns (exit code 0) only with every destination Sent or
\* SkippedError, and a run through the loop that ended with every
\* destination Sent or SkippedError has exit code 0, however many of
\* them are SkippedError.
C12_NormalCompletionAllSettled ==
    /\ (pc = "done" \/ exitCode = 0) =>
          /\ pc = "done" /\ exitCode = 0 /\ error = "none"
          /\ \A p \in Positions : outcomes[p] \in Settled
          /\ idx = Len(dests) + 1
    /\ (Terminated /\ ReachedLoop /\ \A p \in Positions : outcomes[p] \in Settled)
          => exitCode = 0

C12_Witness ==
    /\ pc = "done" /\ exitCode = 0
    /\ Len(dests) = MaxDest
    /\ \A p \in Positions : outcomes[p] = "SkippedError"

\* ------------------------------------------------------------------ C13
\* C13: one invocation of get_jetton, get_wallet or send_jetton makes at
\* most the configured number of gateway calls (5 by default); every call
\* after the first follows a TonCenterClientError, and an exception of
\* another kind leaving the coroutine is its last call and leaves main
\* unchanged (not wrapped in RetryError).
C13_BoundedRetryOnlyOnTransient ==
    /\ Count("fetch_token") <= retrieveAttempts
    /\ Count("fetch_token") <= Count("token_transient") + 1
    /\ Count("fetch_state") <= retrieveAttempts
    /\ Count("fetch_state") <= Count("state_transient") + 1
    /\ Count("token_other") > 0 =>
          /\ Count("token_other") = 1
          /\ Occ("fetch_token").last < Occ("token_other").first
          /\ pc = "raised" /\ error = "other"
    /\ Count("state_other") > 0 =>
          /\ Count("state_other") = 1
          /\ Occ("fetch_state").last < Occ("state_other").first
          /\ pc = "raised" /\ error = "other"
    /\ \A p \in Positions :
          /\ CountAt("transfer", p) <= sendAttempts
          /\ CountAt("transfer", p) <= CountAt("transient", p) + 1
          /\ CountAt("other", p) > 0 =>
                /\ CountAt("other", p) = 1
                /\ OccAt("transfer", p).last < OccAt("other", p).first
                /\ pc = "raised" /\ error = "other"

C13_Witness ==
    /\ retrieveAttempts = DefaultRetrieveRetryAttempts
    /\ sendAttempts = DefaultSendRetryAttempts
    /\ Count("fetch_token") = DefaultRetrieveRetryAttempts
    /\ Count("token_ok") = 1
    /\ Len(dests) = 1
    /\ CountAt("transient", 1) = DefaultSendRetryAttempts - 1
    /\ CountAt("other", 1) = 1
    /\ CountAt("transfer", 1) = DefaultSendRetryAttempts
    /\ pc = "raised" /\ error = "other"

\* ------------------------------------------------------------------ C14
\* the log records of kind k for position p, in the order written
LogsOf(k, p) == SelectSeq(trace, LAMBDA e : e.k = k /\ e.p = p)

\* C14 as stated: every attempt of a retry-wrapped operation, the
\* successful one included, has written one attempt record.
C14_EveryAttemptLogged ==
    /\ Count("retry_log_jetton") = Count("fetch_token")
    /\ Count("retry_log_wallet") = Count("fetch_state")
    /\ \A p \in Positions : CountAt("retry_log_send", p) = CountAt("transfer", p)

\* C14 amended: an attempt has written an attempt record, numbered with the
\* attempt, exactly when it failed with TonCenterClientError; an attempt
\* that succeeded or failed otherwise has written none, so that the records
\* of a retry sequence are numbered 1..k for its k transient failures.
C14_FailedAttemptsLogged ==
    /\ Count("retry_log_jetton") = Count("token_transient")
    /\ Count("retry_log_jetton") = Count("fetch_token") - Count("token_ok") - Count("token_other")
    /\ Count("retry_log_wallet") = Count("state_transient")
    /\ Count("retry_log_wallet") = Count("fetch_state") - Count("state_ok") - Count("state_other")
    /\ LET logs == LogsOf("retry_log_jetton", 0)
       IN  \A j \in 1..Len(logs) : logs[j].n = j
    /\ LET logs == LogsOf("retry_log_wallet", 0)
       IN  \A j \in 1..Len(logs) : logs[j].n = j
    /\ \A p \in Positions :
          /\ CountAt("retry_log_send", p) = CountAt("transient", p)
          /\ CountAt("retry_log_send", p)
                = CountAt("transfer", p) - CountAt("ok", p)
                  - CountAt("rejected", p) - CountAt("other", p)
          /\ LET logs == LogsOf("retry_log_send", p)
             IN  \A j \in 1..Len(logs) : logs[j].n = j

C14_Witness ==
    /\ pc = "done"
    /\ Count("fetch_token") = MaxAttempts /\ Count("retry_log_jetton") = MaxAttempts - 1
    /\ \E p \in Positions :
          /\ outcomes[p] = "Sent"
          /\ CountAt("transfer", p) = MaxAttempts
          /\ CountAt("retry_log_send", p) = MaxAttempts - 1

\* ------------------------------------------------------------------ C15
\* C15: the delay has been slept once for every successful transfer call,
\* right after it, the one of the last destination included, and for no
\* other attempt (failed or rejected): the sleeps are as many as the Sent
\* outcomes.
C15_OneDelayPerSent ==
    /\ Count("sleep") = Count("ok")
    /\ Count("sleep") = Cardinality({p \in Positions : outcomes[p] = "Sent"})
    /\ \A p \in Positions :
          /\ CountAt("sleep", p) = CountAt("ok", p)
          /\ CountAt("sleep", p) <= 1
          /\ CountAt("sleep", p) = 1 =>
                /\ OccAt("ok", p).last = OccAt("transfer", p).last + 1
                /\ OccAt("Sent", p).first = OccAt("ok", p).last + 1
                /\ OccAt("sleep", p).first = OccAt("Sent", p).first + 1
    /\ (Len(dests) > 0 /\ pc = "done" /\ outcomes[Len(dests)] = "Sent")
          => OccAt("sleep", Len(dests)).last = Len(trace)

C15_Witness ==
    /\ pc = "done" /\ Len(dests) = 3
    /\ outcomes = <<"Sent", "SkippedError", "Sent">>
    /\ CountAt("transient", 1) > 0 /\ CountAt("transient", 3) > 0
    /\ Count("sleep") = 2
    /\ trace[Len(trace)].k = "sleep"

\* ------------------------------------------------------------------ C16
Final == {"Sent", "SkippedError", "Aborted"}

\* C16: a step never gives a position a second successful transfer call or
\* more transfer calls than the configured send attempts, and it leaves a
\* position that is Sent, SkippedError or Aborted as it is: same outcome,
\* no further event of any kind.
C16_NoDoubleSend ==
    [][\A p \in Positions :
          /\ seenAt'[p]["ok"].n <= 1
          /\ seenAt'[p]["transfer"].n <= sendAttempts
          /\ outcomes[p] \in Final =>
                outcomes'[p] = outcomes[p] /\ seenAt'[p] = seenAt[p]]_vars

C16_Witness ==
    /\ pc = "done" /\ Len(dests) = MaxDest
    /\ sendAttempts = MaxAttempts
    /\ CountAt("transfer", 1) = MaxAttempts /\ outcomes[1] = "Sent"
    /\ CountAt("ok", 1) = 1
    /\ Count("transfer") > MaxDest

\* ------------------------------------------------------------------ C17
\* C17: a jetton or wallet fetch that raised an exception other than
\* TonCenterClientError is the last gateway call of the run: it is not
\* retried, the exception leaves main (exit status 1, not 3) and no send
\* is made; exit code 3 is only produced for a TonCenterClientError.
C17_OtherResolutionErrorPropagates ==
    /\ Count("token_other") > 0 =>
          /\ Count("token_other") = 1
          /\ Occ("token_other").last = Len(trace)
          /\ Count("fetch_token") = Count("token_transient") + 1
          /\ Count("invoke_get_wallet") = 0 /\ Count("fetch_state") = 0
    /\ Count("state_other") > 0 =>
          /\ Count("state_other") = 1
          /\ Occ("state_other").last = Len(trace)
          /\ Count("fetch_state") = Count("state_transient") + 1
    /\ (Count("token_other") > 0 \/ Count("state_other") > 0) =>
          /\ pc = "raised" /\ error = "other" /\ exitCode = 1
          /\ Count("check") = 0
          /\ Count("invoke_send") = 0 /\ Count("transfer") = 0
    /\ exitCode = 3 =>
          /\ error = "transient" /\ pc = "exit"
          /\ Count("token_transient") = retrieveAttempts
                \/ Count("state_transient") = retrieveAttempts

C17_Witness ==
    /\ Count("token_ok") = 1
    /\ Count("state_transient") = MaxAttempts - 1
    /\ Count("state_other") = 1
    /\ retrieveAttempts = MaxAttempts
    /\ pc = "raised" /\ exitCode = 1
    /\ Len(dests) = MaxDest

\* ------------------------------------------------------------------ C18
\* main() is a sequential program: as long as it has a next step (a gateway
\* call that returns or raises, the state check, the return) it takes it.
\* The runs examined for termination are those over the shorter lists of
\* alternating addresses.
LiveInit ==
    /\ Init
    /\ dests \in {Alternating(n) : n \in 0..MaxDestLive}
    /\ retrieveAttempts <= MaxAttempts /\ sendAttempts <= MaxAttempts

FairSpec == LiveInit /\ [][Next]_vars /\ WF_vars(Next)

\* the configured attempts of the retry sequence that is running
AttemptsInForce == IF pc = "loop" THEN sendAttempts ELSE retrieveAttempts

\* the run has ended in exactly one of the four ways
EndedOneWay ==
    /\ pc = "done" <=> exitCode = 0
    /\ pc = "exit" <=> exitCode \in {3, 4}
    /\ pc = "raised" <=> exitCode = 1
    /\ pc = "raised" <=> error \in {"other", "RetryError"}
    /\ exitCode = 3 <=> error = "transient"
    /\ Terminated <=> exitCode # -1

\* C18: every run ends: it reaches done (exit 0), exit 3, exit 4 or an
\* exception leaving main, in exactly one of these ways and for good; and a
\* retry sequence under way has always made fewer calls than the configured
\* attempts, so that it ends by its last allowed call.
C18_RunTerminates ==
    /\ <>Terminated
    /\ [](EndedOneWay /\ attempt < AttemptsInForce)
    /\ [][~Terminated]_vars

C18_Witness ==
    /\ pc = "raised" /\ error = "RetryError" /\ exitCode = 1
    /\ Len(dests) = MaxDestLive /\ idx = MaxDestLive
    /\ sendAttempts = MaxAttempts
    /\ CountAt("transfer", MaxDestLive) = MaxAttempts
    /\ Count("fetch_token") = MaxAttempts /\ Count("fetch_state") = MaxAttempts

====
